---- MODULE Spec2Model ----
(***************************************************************************)
(* OpenRegistry: the Registry V2 upload handlers (StartUpload, UploadBlob, *)
(* CompleteUpload, MonolithicUpload, PullLayer), the metadata transactions *)
(* they drive, and the JWT / ACL middleware chain.                         *)
(*                                                                         *)
(* Handlers are modelled at the level of echo.Context: the uuid a handler  *)
(* receives is the value of ctx.Param("uuid").  Every handler is one       *)
(* action; the set f names the external calls that fail during it.         *)
(***************************************************************************)
EXTENDS Integers, Sequences, FiniteSets, TLC

\* ------------------------------------------------------------------ bounds
MaxUploads == 1
MaxTxn == 2
MaxLen == 2
MaxChunk == 1
MaxObjects == 2
MaxPatches == 2
MaxStoreTxn == 3
MaxTicks == 2

Bytes == {"a"}
Namespaces == {"alice/app"}
\* The repositories manifests are pushed to, and the tags they are pushed as.
Repos == {"alice/app", "bob/img"}
Tags == {<<"tag", "latest">>, <<"tag", "v1">>}

\* Upload ids: uuid.New() hands them out in order, never one twice.
Ids == 1..MaxUploads

\* ctx.Param(name) is "" when the matched route declares no parameter of
\* that name: the one key of the upload maps that no POST hands out.
EmptyUuid == 0 - 1
Keys == Ids \cup {EmptyUuid}

RECURSIVE SeqsUpTo(_)
SeqsUpTo(n) ==
  IF n = 0 THEN {<<>>}
  ELSE LET S == SeqsUpTo(n - 1)
       IN  S \cup {Append(s, b) : s \in {t \in S : Len(t) = n - 1}, b \in Bytes}

Bodies == SeqsUpTo(MaxChunk)
Buffers == SeqsUpTo(MaxLen)

\* uuid.NewString() of a row that no upload session names.
RandomUuid == 0

\* TxnStore.timeout, in minutes.
Timeout == 30

\* ------------------------------------------------------------------ digest
NoDigest == <<>>
digest(bz) == <<"sha256", bz>>
ClientDigests == {digest(b) : b \in Buffers}

\* ------------------------------------------------------------ object store
Link(ns, name, bz) == [ns |-> ns, name |-> name, content |-> bz]
NoLink == [ns |-> <<>>, name |-> NoDigest, content |-> <<>>]
BlobNamespace(ns) == <<ns, "blobs">>
PlainNamespace(ns) == <<ns>>
getHttpUrlFromSkylink(skylink) == <<"skynet", skylink>>

\* ------------------------------------------------------------- local cache
NoMetadata == [has |-> FALSE, digest |-> NoDigest, skynetLink |-> NoLink,
               uuid |-> RandomUuid, size |-> 0]
CacheUpdate(c, key, value) == [c EXCEPT ![key] = value]

\* ---------------------------------------------------------------- failures
Calls == {"Body", "Upload", "NewTxn", "SetBlob", "SetLayer", "Commit", "Abort",
          "CacheUpdate", "GetLayer", "Download", "Corrupt"}
\* The calls each handler makes, hence the failures it can meet; a handler
\* returns at its first failure, except blobTransaction, which calls Abort
\* after a failed SetBlob.
FailSetsOf(calls) == {{}} \cup {{c} : c \in calls}
StartUploadFails == FailSetsOf({"Body", "Upload", "NewTxn", "SetLayer", "Commit"})
UploadBlobFails == FailSetsOf({"Body", "SetBlob"}) \cup {{"SetBlob", "Abort"}}
Fails(f, call) == call \in f

NoToken == [kind |-> "missing", sub |-> ""]

\* The two PATCH requests served at once, one request each.
Procs == {"p1", "p2"}
Idle == [pc |-> "idle", uuid |-> RandomUuid, start |-> 0, body |-> <<>>,
         seen |-> [has |-> FALSE, txn |-> 0, blobDigests |-> <<>>, timeout |-> 0],
         buf |-> <<>>, status |-> 0]

\* The users and session tables, and what the last store call returned.
UserIds == {"u1", "u2"}
SessionIds == {"s1", "s2"}
NoUser == [id |-> "", username |-> "", isActive |-> FALSE]
NoUserResp == [op |-> "none", arg |-> "", err |-> FALSE, user |-> NoUser]

VARIABLES uploads, txnMap, txns, layerTable, blobTable, objects, localCache,
          nextId, acked, resp, authLog, manifestTable, configTable, now, patches,
          userTable, sessionTable, userResp

regVars == <<uploads, txnMap, txns, layerTable, blobTable, objects, localCache,
             nextId, acked, resp, manifestTable, configTable>>
vars == <<uploads, txnMap, txns, layerTable, blobTable, objects, localCache,
          nextId, acked, resp, authLog, manifestTable, configTable, now, patches,
          userTable, sessionTable, userResp>>
userVars == <<userTable, sessionTable, userResp>>

\* ------------------------------------------------------------- Go map ops
NoBuf == [has |-> FALSE, bz |-> <<>>]
NoTxnStore == [has |-> FALSE, txn |-> 0, blobDigests |-> <<>>, timeout |-> 0]
HasUpload(u) == uploads[u].has
HasTxn(u) == txnMap[u].has
UploadsGet(m, id) == m[id].bz
UploadsPut(m, id, bz) == [m EXCEPT ![id] = [has |-> TRUE, bz |-> bz]]
UploadsDelete(m, id) == [m EXCEPT ![id] = NoBuf]
TxnMapSkip(m, id, store) == m
TxnMapPut(m, id, store) == [m EXCEPT ![id] = store]
TxnMapKeep(m, id) == m
TxnMapDelete(m, id) == [m EXCEPT ![id] = NoTxnStore]

\* --------------------------------------------------------- metadata store
TxnOpen(T, t) == t \in DOMAIN T /\ T[t].state = "open"
NoWrites == [manifests |-> {}, configs |-> {}, refs |-> {}, layers |-> {},
             blobs |-> {}]
NewTxn(T) ==
  Append(T, [state |-> "open", blobs |-> <<>>, layers |-> <<>>, set |-> NoWrites,
             del |-> NoWrites])
Elems(s) == {s[i] : i \in DOMAIN s}
LayerKnown(L, dig) == \E row \in L : row.digest = dig
GetLayer(L, dig) == CHOOSE row \in L : row.digest = dig
SetBlobOk(T, t, f) == ~Fails(f, "SetBlob") /\ TxnOpen(T, t)
SetBlob(T, t, blob) == [T EXCEPT ![t].blobs = Append(@, blob)]
SetLayerOk(T, L, t, layer, f) ==
  ~Fails(f, "SetLayer") /\ TxnOpen(T, t) /\ ~LayerKnown(L, layer.digest)
SetLayer(T, t, layer) == [T EXCEPT ![t].layers = Append(@, layer)]
CommitOk(T, L, t, f) ==
  /\ ~Fails(f, "Commit")
  /\ TxnOpen(T, t)
  /\ \A row \in Elems(T[t].layers) : ~LayerKnown(L, row.digest)
CloseLeavesOpen(T, t, how) == T
Close(T, t, how) ==
  IF TxnOpen(T, t)
  THEN [T EXCEPT ![t] = [state |-> how, blobs |-> <<>>, layers |-> <<>>,
                         set |-> NoWrites, del |-> NoWrites]]
  ELSE T
AbortOk(T, t, f) == ~Fails(f, "Abort") /\ TxnOpen(T, t)

\* --------------------------------------------------------------- responses
NoLocation == <<>>
BlobLocation(ns, d) == <<"v2", ns, "blobs", d>>
UploadLocation(ns, id) == <<"v2", ns, "blobs", "uploads", id>>
Response(op, ns, id, status, code) ==
  [op |-> op, ns |-> ns, uuid |-> id, status |-> status, code |-> code,
   location |-> NoLocation, range |-> 0 - 2, digest |-> NoDigest,
   body |-> <<>>, txn |-> 0, wrote |-> FALSE, events |-> <<>>,
   ref |-> NoDigest, tags |-> <<>>]

Cur == [uploads |-> uploads, txnMap |-> txnMap, txns |-> txns,
        layerTable |-> layerTable, blobTable |-> blobTable, objects |-> objects,
        localCache |-> localCache, nextId |-> nextId, acked |-> acked,
        resp |-> resp, manifestTable |-> manifestTable,
        configTable |-> configTable]

Apply(r) ==
  /\ uploads' = r.uploads
  /\ txnMap' = r.txnMap
  /\ txns' = r.txns
  /\ layerTable' = r.layerTable
  /\ blobTable' = r.blobTable
  /\ objects' = r.objects
  /\ localCache' = r.localCache
  /\ nextId' = r.nextId
  /\ acked' = r.acked
  /\ resp' = r.resp
  /\ manifestTable' = r.manifestTable
  /\ configTable' = r.configTable
  /\ UNCHANGED <<authLog, now, patches, userVars>>

Init ==
  /\ uploads = [u \in Keys |-> NoBuf]
  /\ txnMap = [u \in Keys |-> NoTxnStore]
  /\ txns = <<>>
  /\ layerTable = {}
  /\ blobTable = {}
  /\ objects = {}
  /\ localCache = [ns \in Namespaces |-> NoMetadata]
  /\ nextId = 1
  /\ acked = [u \in Keys |-> <<>>]
  /\ resp = Response("none", "", RandomUuid, 0, "")
  /\ authLog = [method |-> "none", mark |-> "unset", token |-> NoToken,
                username |-> "", verified |-> FALSE, aclRan |-> FALSE,
                handlerRan |-> FALSE, status |-> 0]
  /\ manifestTable = {}
  /\ configTable = {}
  /\ now = 0
  /\ patches = [p \in Procs |-> Idle]
  /\ userTable = {}
  /\ sessionTable = {}
  /\ userResp = NoUserResp

\* ------------------------------------------------- POST /blobs/uploads/

\* The ?digest= branch of StartUpload: verify, upload, write the Layer, commit.
StartUploadDigestOk(dig, clientDigest) == dig = clientDigest

StartUploadMonolithic(ns, clientDigest, body, f) ==
  LET op == "StartUpload"
      dig == digest(body)
      skylink == Link(PlainNamespace(ns), dig, body)
      layerV2 == [mediaType |-> "", digest |-> dig, skynetLink |-> skylink,
                  uuid |-> RandomUuid, blobDigests |-> <<>>, size |-> Len(body)]
      t == Len(txns) + 1
      T1 == NewTxn(txns)
      T2 == SetLayer(T1, t, layerV2)
      R(status, code) == Response(op, ns, RandomUuid, status, code)
  IN
  IF Fails(f, "Body")
  THEN [Cur EXCEPT !.resp = R(404, "BLOB_UPLOAD_INVALID")]
  ELSE IF ~StartUploadDigestOk(dig, clientDigest)
  THEN [Cur EXCEPT !.resp = R(400, "DIGEST_INVALID")]
  ELSE IF Fails(f, "Upload")
  THEN [Cur EXCEPT !.resp = R(416, "BLOB_UPLOAD_INVALID")]
  ELSE IF Fails(f, "NewTxn")
  THEN [Cur EXCEPT !.objects = @ \cup {skylink},
                   !.resp = R(500, "UNKNOWN")]
  ELSE IF ~SetLayerOk(T1, layerTable, t, layerV2, f)
  THEN [Cur EXCEPT !.objects = @ \cup {skylink},
                   !.txns = T1,
                   !.resp = [R(400, "BLOB_UPLOAD_INVALID") EXCEPT !.txn = t]]
  ELSE IF ~CommitOk(T2, layerTable, t, f)
  THEN [Cur EXCEPT !.objects = @ \cup {skylink},
                   !.txns = Close(T2, t, "aborted"),
                   !.resp = [R(400, "BLOB_UPLOAD_INVALID") EXCEPT !.txn = t]]
  ELSE [Cur EXCEPT !.objects = @ \cup {skylink},
                   !.txns = Close(T2, t, "committed"),
                   !.layerTable = @ \cup Elems(T2[t].layers),
                   !.blobTable = @ \cup Elems(T2[t].blobs),
                   !.resp = [R(201, "") EXCEPT
                               !.txn = t,
                               !.location = getHttpUrlFromSkylink(skylink)]]

\* The branch without ?digest=: open an upload session.
StartUploadSession(ns, f) ==
  LET op == "StartUpload"
      id == nextId
      t == Len(txns) + 1
  IN
  IF Fails(f, "NewTxn")
  THEN [Cur EXCEPT !.resp = Response(op, ns, id, 500, "UNKNOWN")]
  ELSE [Cur EXCEPT !.txns = NewTxn(txns),
                   !.txnMap = TxnMapPut(@, id, [has |-> TRUE, txn |-> t,
                                                blobDigests |-> <<>>,
                                                timeout |-> Timeout]),
                   !.nextId = id + 1,
                   !.resp = [Response(op, ns, id, 202, "") EXCEPT
                               !.location = UploadLocation(ns, id),
                               !.range = 0,
                               !.txn = t]]

\* Clients address the uuids a POST has returned to them.
Issued == 1..(nextId - 1)

CanUpload(link) == link \in objects \/ Cardinality(objects) < MaxObjects

StartUpload ==
  \E ns \in Namespaces, f \in StartUploadFails :
    \/ \E clientDigest \in ClientDigests, body \in Bodies :
         /\ Len(txns) < MaxTxn
         /\ CanUpload(Link(PlainNamespace(ns), digest(body), body))
         /\ Apply(StartUploadMonolithic(ns, clientDigest, body, f))
    \/ /\ Len(txns) < MaxTxn
       /\ nextId <= MaxUploads
       /\ Apply(StartUploadSession(ns, f))

\* ------------------------------------------- PATCH /blobs/uploads/<uuid>
\* Content-Range as fmt.Sscanf(contentRange, "%d-%d", &start, &end) sees it.
ContentRanges ==
  {[kind |-> "absent", start |-> 0, end |-> 0],
   [kind |-> "malformed", start |-> 0, end |-> 0]}
  \cup {[kind |-> "range", start |-> s, end |-> e] : s \in 0..MaxLen, e \in {0, MaxLen}}

\* uint32(n) for the small n the model meets, as <<high, low>> 16-bit halves
\* (the value is high * 65536 + low), so that uint32(-1) = 2^32 - 1 is kept.
Uint32(n) == IF n >= 0 THEN <<0, n>> ELSE <<65535, 65536 + n>>

\* txnOp.blobDigests = append(txnOp.blobDigests, blob.Digest)
AppendDigest(digests, dig) == Append(digests, dig)

\* blobTransaction: [err, txns, txnMap] after writing the fragment row.
blobTransactionErr(t, f) ==
  IF SetBlobOk(txns, t, f) THEN FALSE ELSE ~AbortOk(txns, t, f)

blobTransaction(bz, uuid, f) ==
  LET blob == [digest |-> digest(bz), skylink |-> NoLink, uuid |-> uuid,
               rangeStart |-> 0, rangeEnd |-> Uint32(Len(bz) - 1)]
      txnOp == txnMap[uuid]
  IN
  IF ~txnOp.has
  THEN [err |-> TRUE, wrote |-> FALSE, txns |-> txns, txnMap |-> txnMap, txn |-> 0]
  ELSE IF ~SetBlobOk(txns, txnOp.txn, f)
  THEN [err |-> blobTransactionErr(txnOp.txn, f), wrote |-> FALSE,
        txns |-> Close(txns, txnOp.txn, "aborted"),
        txnMap |-> txnMap, txn |-> txnOp.txn]
  ELSE [err |-> FALSE, wrote |-> TRUE,
        txns |-> SetBlob(txns, txnOp.txn, blob),
        txnMap |-> [txnMap EXCEPT ![uuid].blobDigests = AppendDigest(@, blob.digest)],
        txn |-> txnOp.txn]

RangeMismatch(start, uuid) == start # Len(UploadsGet(uploads, uuid))

\* return ctx.JSONBlob(http.StatusRequestedRangeNotSatisfiable, errMsg)
RangeNotSatisfiableDropsBuffer(uuid, r) ==
  [Cur EXCEPT !.uploads = UploadsDelete(@, uuid), !.resp = r]
RangeNotSatisfiable(uuid, r) == [Cur EXCEPT !.resp = r]

\* got: the bytes io.ReadAll had read when the body read failed.
UploadBlob(ns, uuid, cr, body, got, f) ==
  LET op == "UploadBlob"
      R(status, code) == Response(op, ns, uuid, status, code)
  IN
  IF cr.kind = "absent"
  THEN
    IF HasUpload(uuid)
    THEN [Cur EXCEPT !.resp = R(400, "BLOB_UPLOAD_INVALID")]
    ELSE
      LET bz == IF Fails(f, "Body") THEN SubSeq(body, 1, got) ELSE body
          bt == blobTransaction(bz, uuid, f)
      IN
      IF bt.err
      THEN [Cur EXCEPT !.uploads = UploadsPut(@, uuid, bz),
                       !.txns = bt.txns,
                       !.resp = [R(400, "BLOB_UPLOAD_INVALID") EXCEPT !.txn = bt.txn]]
      ELSE [Cur EXCEPT !.uploads = UploadsPut(@, uuid, bz),
                       !.txns = bt.txns,
                       !.txnMap = bt.txnMap,
                       !.acked[uuid] = Append(@, bz),
                       !.resp = [R(202, "") EXCEPT
                                   !.location = UploadLocation(ns, uuid),
                                   !.range = Len(bz) - 1,
                                   !.txn = bt.txn,
                                   !.wrote = bt.wrote]]
  ELSE IF cr.kind = "malformed"
  THEN RangeNotSatisfiable(uuid, R(416, "BLOB_UPLOAD_UNKNOWN"))
  ELSE IF RangeMismatch(cr.start, uuid)
  THEN RangeNotSatisfiable(uuid, R(416, "BLOB_UPLOAD_UNKNOWN"))
  ELSE IF Fails(f, "Body")
  THEN [Cur EXCEPT !.resp = R(500, "BLOB_UPLOAD_INVALID")]
  ELSE
    LET buf == UploadsGet(uploads, uuid) \o body
        bt == blobTransaction(buf, uuid, f)
    IN
    IF bt.err
    THEN [Cur EXCEPT !.uploads = UploadsPut(@, uuid, buf),
                     !.txns = bt.txns,
                     !.resp = [R(400, "BLOB_UPLOAD_INVALID") EXCEPT !.txn = bt.txn]]
    ELSE [Cur EXCEPT !.uploads = UploadsPut(@, uuid, buf),
                     !.txns = bt.txns,
                     !.txnMap = bt.txnMap,
                     !.acked[uuid] = Append(@, body),
                     !.resp = [R(202, "") EXCEPT
                                 !.location = UploadLocation(ns, uuid),
                                 !.range = Len(buf) - 1,
                                 !.txn = bt.txn,
                                 !.wrote = bt.wrote]]

ChunkedUpload ==
  \E ns \in Namespaces, uuid \in Issued, cr \in ContentRanges, body \in Bodies,
     got \in 0..MaxChunk, f \in UploadBlobFails :
    /\ got <= Len(body)
    /\ (Fails(f, "Body") /\ cr.kind = "absent") \/ got = Len(body)
    /\ Len(acked[uuid]) < MaxPatches
    /\ Len(UploadsGet(uploads, uuid)) + Len(body) <= MaxLen
    /\ Apply(UploadBlob(ns, uuid, cr, body, got, f))


\* --------------------------------- PUT /blobs/uploads/<uuid>?digest=<d>
CompleteUploadFails == FailSetsOf({"Body", "Upload", "SetLayer", "Commit"})

CompleteDigestAny(ourHash, dig) == TRUE
CompleteDigestOk(ourHash, dig) == ourHash = dig

LayerSize(buf, ubuf) == Len(buf)

CompleteUpload(ns, id, dig, body, f) ==
  LET op == "CompleteUpload"
      R(status, code) == Response(op, ns, id, status, code)
      ubuf == UploadsGet(uploads, id) \o body
      ourHash == digest(ubuf)
      skylink == Link(BlobNamespace(ns), dig, ubuf)
      txnOp == txnMap[id]
      layer == [mediaType |-> "", digest |-> dig, skynetLink |-> skylink,
                uuid |-> id, blobDigests |-> txnOp.blobDigests,
                size |-> LayerSize(body, ubuf)]
      T1 == SetLayer(txns, txnOp.txn, layer)
  IN
  IF Fails(f, "Body")
  THEN [Cur EXCEPT !.resp = R(400, "DIGEST_INVALID")]
  ELSE IF ~CompleteDigestOk(ourHash, dig)
  THEN [Cur EXCEPT !.uploads = UploadsDelete(@, id),
                   !.resp = [R(400, "DIGEST_INVALID") EXCEPT !.txn = txnOp.txn]]
  ELSE IF Fails(f, "Upload")
  THEN [Cur EXCEPT !.uploads = UploadsDelete(@, id),
                   !.resp = [R(416, "BLOB_UPLOAD_INVALID") EXCEPT !.txn = txnOp.txn]]
  ELSE IF ~txnOp.has
  THEN [Cur EXCEPT !.uploads = UploadsDelete(@, id),
                   !.objects = @ \cup {skylink},
                   !.resp = R(400, "UNKNOWN")]
  ELSE IF ~SetLayerOk(txns, layerTable, txnOp.txn, layer, f)
  THEN [Cur EXCEPT !.uploads = UploadsDelete(@, id),
                   !.objects = @ \cup {skylink},
                   !.resp = [R(400, "UNKNOWN") EXCEPT !.txn = txnOp.txn]]
  ELSE IF ~CommitOk(T1, layerTable, txnOp.txn, f)
  THEN [Cur EXCEPT !.uploads = UploadsDelete(@, id),
                   !.objects = @ \cup {skylink},
                   !.txns = Close(T1, txnOp.txn, "aborted"),
                   !.resp = [R(400, "UNKNOWN") EXCEPT !.txn = txnOp.txn]]
  ELSE [Cur EXCEPT !.uploads = UploadsDelete(@, id),
                   !.objects = @ \cup {skylink},
                   !.txns = Close(T1, txnOp.txn, "committed"),
                   !.layerTable = @ \cup Elems(T1[txnOp.txn].layers),
                   !.blobTable = @ \cup Elems(T1[txnOp.txn].blobs),
                   !.txnMap = TxnMapDelete(@, id),
                   !.resp = [R(201, "") EXCEPT
                               !.location = BlobLocation(ns, ourHash),
                               !.digest = ourHash,
                               !.txn = txnOp.txn]]

FinishUpload ==
  \E ns \in Namespaces, id \in Issued, dig \in ClientDigests, body \in Bodies,
     f \in CompleteUploadFails :
    /\ Len(UploadsGet(uploads, id)) + Len(body) <= MaxLen
    /\ CanUpload(Link(BlobNamespace(ns), dig, UploadsGet(uploads, id) \o body))
    /\ Apply(CompleteUpload(ns, id, dig, body, f))

\* ------------------------------------------------ GET /blobs/<digest>
\* "Corrupt": the object store hands back other bytes than were uploaded.
PullLayerFails == FailSetsOf({"GetLayer", "Download", "Body", "Corrupt"})

Corrupted(bz) == IF bz = <<>> THEN <<"a">> ELSE Tail(bz)

PullDigestAny(dig, clientDigest) == TRUE
PullDigestOk(dig, clientDigest) == dig = clientDigest

\* The response of PullLayer over layer table L and object store O.
PullLayerResponse(L, O, ns, clientDigest, f) ==
  LET op == "PullLayer"
      R(status, code) ==
        [Response(op, ns, RandomUuid, status, code) EXCEPT !.ref = clientDigest]
      layer == GetLayer(L, clientDigest)
      bz == IF Fails(f, "Corrupt") THEN Corrupted(layer.skynetLink.content)
            ELSE layer.skynetLink.content
      dig == digest(bz)
  IN
  IF Fails(f, "GetLayer") \/ ~LayerKnown(L, clientDigest)
  THEN R(404, "BLOB_UNKNOWN")
  ELSE IF layer.skynetLink = NoLink
  THEN R(404, "BLOB_UNKNOWN")
  ELSE IF Fails(f, "Download") \/ layer.skynetLink \notin O
  THEN R(404, "BLOB_UNKNOWN")
  ELSE IF Fails(f, "Body")
  THEN R(500, "BLOB_UPLOAD_INVALID")
  ELSE IF ~PullDigestOk(dig, clientDigest)
  THEN R(404, "BLOB_UPLOAD_UNKNOWN")
  ELSE [R(200, "") EXCEPT !.digest = dig, !.body = bz]

PullLayer(ns, clientDigest, f) ==
  [Cur EXCEPT !.resp = PullLayerResponse(layerTable, objects, ns, clientDigest, f)]

GetBlob ==
  \E ns \in Namespaces, clientDigest \in ClientDigests, f \in PullLayerFails :
    Apply(PullLayer(ns, clientDigest, f))


\* ------------------------------------------ GET /blobs/uploads/<uuid>
\* localCache.GetSkynetURL(namespace, uuid): the link cached for the namespace
\* by an upload of that uuid.
CacheHasUuid(c, ns, uuid) == c[ns].has /\ c[ns].uuid = uuid
GetSkynetURL(c, ns, uuid) == c[ns].skynetLink

UploadProgressFails == FailSetsOf({"GetSkynetURL", "Metadata"})

UploadProgressResponse(c, O, ns, uuid, f) ==
  LET op == "UploadProgress"
      R(range) == [Response(op, ns, uuid, 204, "") EXCEPT
                     !.location = UploadLocation(ns, uuid),
                     !.range = range]
      skylink == GetSkynetURL(c, ns, uuid)
  IN
  IF Fails(f, "GetSkynetURL") \/ ~CacheHasUuid(c, ns, uuid)
  THEN R(0)
  ELSE IF Fails(f, "Metadata") \/ skylink \notin O
  THEN R(0)
  ELSE R(Len(skylink.content))

UploadProgress(ns, uuid, f) ==
  [Cur EXCEPT !.resp = UploadProgressResponse(localCache, objects, ns, uuid, f)]

GetProgress ==
  \E ns \in Namespaces, uuid \in Issued, f \in UploadProgressFails :
    Apply(UploadProgress(ns, uuid, f))

\* ------------------------------------------------ HEAD /blobs/<digest>
\* localCache.GetDigest reads the local cache, which only MonolithicUpload
\* writes (localCache.Update); an entry is found when one carries the digest.
CacheHasDigest(c, dig) == \E ns \in DOMAIN c : c[ns].has /\ c[ns].digest = dig
GetDigest(c, dig) ==
  c[CHOOSE ns \in DOMAIN c : c[ns].has /\ c[ns].digest = dig]

HEADFails == FailSetsOf({"GetDigest", "Metadata"})

HEADResponse(c, O, ns, dig, f) ==
  LET op == "HEAD"
      R(status, code) ==
        [Response(op, ns, RandomUuid, status, code) EXCEPT !.ref = dig]
      layerRef == GetDigest(c, dig)
  IN
  IF Fails(f, "GetDigest") \/ ~CacheHasDigest(c, dig)
  THEN R(404, "MANIFEST_BLOB_UNKNOWN")
  ELSE IF Fails(f, "Metadata") \/ layerRef.skynetLink \notin O
  THEN R(404, "MANIFEST_BLOB_UNKNOWN")
  ELSE [R(200, "") EXCEPT !.digest = dig]

HEAD(ns, dig, f) ==
  [Cur EXCEPT !.resp = HEADResponse(localCache, objects, ns, dig, f)]

HeadBlob ==
  \E ns \in Namespaces, dig \in ClientDigests, f \in HEADFails :
    Apply(HEAD(ns, dig, f))

\* ------------------- MonolithicUpload (PUT /blobs/uploads/<uuid>?digest=)
MonolithicUploadFails == FailSetsOf({"Body", "Upload", "CacheUpdate"})

MonolithicUpload(ns, uuid, dig, body, f) ==
  LET op == "MonolithicUpload"
      R(status, code) == Response(op, ns, uuid, status, code)
      link == Link(PlainNamespace(ns), dig, body)
      metadata == [has |-> TRUE, digest |-> dig, skynetLink |-> link,
                   uuid |-> uuid, size |-> Len(body)]
  IN
  IF Fails(f, "Body")
  THEN [Cur EXCEPT !.resp = R(400, "BLOB_UPLOAD_INVALID")]
  ELSE IF Fails(f, "Upload")
  THEN [Cur EXCEPT !.resp = [R(500, "") EXCEPT !.body = body]]
  ELSE IF Fails(f, "CacheUpdate")
  THEN [Cur EXCEPT !.objects = @ \cup {link},
                   !.resp = R(400, "BLOB_UPLOAD_INVALID")]
  ELSE [Cur EXCEPT !.objects = @ \cup {link},
                   !.localCache = CacheUpdate(@, ns, metadata),
                   !.resp = [R(201, "") EXCEPT !.location = <<"skylink", link>>]]

PutMonolithic ==
  \E ns \in Namespaces, uuid \in Issued \cup {RandomUuid}, dig \in ClientDigests,
     body \in Bodies, f \in MonolithicUploadFails :
    /\ CanUpload(Link(PlainNamespace(ns), dig, body))
    /\ Apply(MonolithicUpload(ns, uuid, dig, body, f))


\* ------------------------------------------ PUT /manifests/<reference>
\* Manifest JSON as json.Unmarshal reads it: "{" opens the document, every
\* "[" opens one layer entry, and the bytes after it name the layer's digest.
ManifestBodies == {<<>>, <<"{">>, <<"{", "[", "a">>}
Unmarshals(bz) == bz # <<>> /\ Head(bz) = "{"

RECURSIVE LayerEntries(_)
LayerEntries(s) ==
  IF s = <<>> THEN <<>>
  ELSE LET init == LayerEntries(SubSeq(s, 1, Len(s) - 1))
           last == s[Len(s)]
       IN  IF last = "[" THEN Append(init, <<>>)
           ELSE IF init = <<>> THEN <<>>
           ELSE [init EXCEPT ![Len(init)] = Append(@, last)]

\* manifest.Layers[i].Digest
ManifestLayers(bz) ==
  LET entries == LayerEntries(Tail(bz))
  IN  [i \in DOMAIN entries |-> digest(entries[i])]

ManifestNamespace(ns) == <<ns, "manifests">>
Refs == Tags \cup {digest(bz) : bz \in {b \in ManifestBodies : Unmarshals(b)}}

SetManifestOk(T, t, f) == ~Fails(f, "SetManifest") /\ TxnOpen(T, t)
SetManifest(T, t, val) == [T EXCEPT ![t].set.manifests = @ \cup {val}]
SetConfigOk(T, t, f) == ~Fails(f, "SetConfig") /\ TxnOpen(T, t)
SetConfig(T, t, cfg) == [T EXCEPT ![t].set.configs = @ \cup {cfg}]
\* Committed Config rows: one per (namespace, reference), the last one pushed.
UpsertConfigs(C, rows) ==
  {c \in C : ~\E r \in rows : r.namespace = c.namespace /\ r.reference = c.reference}
    \cup rows

Called(call, t, ok) == [call |-> call, txn |-> t, ok |-> ok]

PushManifestFails ==
  FailSetsOf({"Body", "Upload", "NewTxn", "SetManifest", "SetConfig", "Commit"})

\* dig := digest(buf.Bytes())
ManifestDigestOfNothing(bz) == digest(<<>>)
ManifestDigest(bz) == digest(bz)

ManifestUploadAny(f) == TRUE
ManifestUploadOk(f) == ~Fails(f, "Upload")

PushManifest(ns, ref, bz, f) ==
  LET op == "PushManifest"
      R(status, code) ==
        [Response(op, ns, RandomUuid, status, code) EXCEPT !.ref = ref]
      dig == ManifestDigest(bz)
      skylink == Link(ManifestNamespace(ns), dig, bz)
      O1 == IF Fails(f, "Upload") THEN objects ELSE objects \cup {skylink}
      mfc == [uuid |-> RandomUuid, namespace |-> ns, reference |-> ref,
              digest |-> dig, skylink |-> skylink, mediaType |-> "",
              layers |-> ManifestLayers(bz), size |-> 0]
      val == [uuid |-> RandomUuid, namespace |-> ns, mediaType |-> "",
              schemaVersion |-> 2]
      t == Len(txns) + 1
      T1 == NewTxn(txns)
      T2 == SetManifest(T1, t, val)
      T3 == SetConfig(T2, t, mfc)
      e1 == <<Called("Upload", 0, ~Fails(f, "Upload"))>>
      e2 == Append(e1, Called("NewTxn", t, ~Fails(f, "NewTxn")))
      e3 == Append(e2, Called("SetManifest", t, SetManifestOk(T1, t, f)))
      e4 == Append(e3, Called("SetConfig", t, SetConfigOk(T2, t, f)))
      e5 == Append(e4, Called("Commit", t, CommitOk(T3, layerTable, t, f)))
  IN
  IF Fails(f, "Body")
  THEN [Cur EXCEPT !.resp = R(400, "")]
  ELSE IF ~Unmarshals(bz)
  THEN [Cur EXCEPT !.resp = R(400, "BLOB_UNKNOWN")]
  ELSE IF ~ManifestUploadOk(f)
  THEN [Cur EXCEPT !.resp = [R(404, "MANIFEST_BLOB_UNKNOWN") EXCEPT !.events = e1]]
  ELSE IF Fails(f, "NewTxn")
  THEN [Cur EXCEPT !.objects = O1,
                   !.resp = [R(500, "UNKNOWN") EXCEPT
                               !.events = Append(e2, Called("Abort", 0, FALSE))]]
  ELSE IF ~SetManifestOk(T1, t, f)
  THEN [Cur EXCEPT !.objects = O1,
                   !.txns = Close(T1, t, "aborted"),
                   !.resp = [R(400, "UNKNOWN") EXCEPT
                               !.txn = t,
                               !.events = Append(e3, Called("Abort", t, TRUE))]]
  ELSE IF ~SetConfigOk(T2, t, f)
  THEN [Cur EXCEPT !.objects = O1,
                   !.txns = Close(T2, t, "aborted"),
                   !.resp = [R(400, "UNKNOWN") EXCEPT
                               !.txn = t,
                               !.events = Append(e4, Called("Abort", t, TRUE))]]
  ELSE IF ~CommitOk(T3, layerTable, t, f)
  THEN [Cur EXCEPT !.objects = O1,
                   !.txns = Close(T3, t, "aborted"),
                   !.resp = [R(500, "UNKNOWN") EXCEPT
                               !.txn = t,
                               !.events = Append(e5, Called("Abort", t, FALSE))]]
  ELSE [Cur EXCEPT !.objects = O1,
                   !.txns = Close(T3, t, "committed"),
                   !.manifestTable = @ \cup T3[t].set.manifests,
                   !.configTable = UpsertConfigs(@, T3[t].set.configs),
                   !.resp = [R(201, "") EXCEPT
                               !.location = getHttpUrlFromSkylink(skylink),
                               !.digest = dig,
                               !.txn = t,
                               !.events = e5]]

PutManifest ==
  \E ns \in Repos, ref \in Refs, bz \in ManifestBodies, f \in PushManifestFails :
    /\ Len(txns) < MaxStoreTxn
    /\ CanUpload(Link(ManifestNamespace(ns), digest(bz), bz))
    /\ Apply(PushManifest(ns, ref, bz, f))

\* ------------------------------------------ GET /manifests/<reference>
\* A reference that looks like sha256:<hex> is matched on the digest, any
\* other on the tag.
IsDigest(ref) == ref[1] = "sha256"
RefMatchesEither(row, ref) == row.reference = ref \/ row.digest = ref
RefMatches(row, ref) ==
  IF IsDigest(ref) THEN row.digest = ref ELSE row.reference = ref
ManifestKnown(C, ns, ref) ==
  \E row \in C : row.namespace = ns /\ RefMatches(row, ref)
GetManifestByReference(C, ns, ref) ==
  CHOOSE row \in C : row.namespace = ns /\ RefMatches(row, ref)

PullManifestFails == FailSetsOf({"GetManifestByReference", "Download", "Body"})

PullManifestResponse(C, O, ns, ref, f) ==
  LET op == "PullManifest"
      R(status, code) ==
        [Response(op, ns, RandomUuid, status, code) EXCEPT !.ref = ref]
      manifest == GetManifestByReference(C, ns, ref)
      bz == manifest.skylink.content
  IN
  IF Fails(f, "GetManifestByReference") \/ ~ManifestKnown(C, ns, ref)
  THEN R(404, "MANIFEST_UNKNOWN")
  ELSE IF Fails(f, "Download") \/ manifest.skylink \notin O
  THEN R(404, "MANIFEST_INVALID")
  ELSE IF Fails(f, "Body")
  THEN R(404, "MANIFEST_INVALID")
  ELSE [R(200, "") EXCEPT !.digest = manifest.digest, !.body = bz]

PullManifest(ns, ref, f) ==
  [Cur EXCEPT !.resp = PullManifestResponse(configTable, objects, ns, ref, f)]

GetManifest ==
  \E ns \in Repos, ref \in Refs, f \in PullManifestFails :
    Apply(PullManifest(ns, ref, f))


\* ----------------------------------------- HEAD /manifests/<reference>
ManifestExistsFails == FailSetsOf({"GetManifestByReference", "Metadata"})

ManifestExistsResponse(C, O, ns, ref, f) ==
  LET op == "ManifestExists"
      R(status, code) ==
        [Response(op, ns, RandomUuid, status, code) EXCEPT !.ref = ref]
      manifest == GetManifestByReference(C, ns, ref)
  IN
  IF Fails(f, "GetManifestByReference") \/ ~ManifestKnown(C, ns, ref)
  THEN R(404, "MANIFEST_BLOB_UNKNOWN")
  ELSE IF Fails(f, "Metadata") \/ manifest.skylink \notin O
  THEN R(404, "MANIFEST_BLOB_UNKNOWN")
  ELSE IF manifest.reference # ref /\ manifest.digest # ref
  THEN R(400, "MANIFEST_INVALID")
  ELSE [R(200, "") EXCEPT !.digest = manifest.digest]

ManifestExists(ns, ref, f) ==
  [Cur EXCEPT !.resp = ManifestExistsResponse(configTable, objects, ns, ref, f)]

HeadManifest ==
  \E ns \in Repos, ref \in Refs, f \in ManifestExistsFails :
    Apply(ManifestExists(ns, ref, f))

\* --------------------------------------- DELETE /manifests/<reference>
\* DeleteManifestOrTag is handed the reference alone, not the namespace.
DeleteManifestOrTagOk(T, C, t, ref, f) ==
  /\ ~Fails(f, "DeleteManifestOrTag")
  /\ TxnOpen(T, t)
  /\ \E row \in C : RefMatches(row, ref)
DeleteManifestOrTag(T, t, ref) == [T EXCEPT ![t].del.refs = @ \cup {ref}]

DeleteTagOrManifestFails == FailSetsOf({"NewTxn", "DeleteManifestOrTag", "Commit"})

DeleteTagOrManifest(ns, ref, f) ==
  LET op == "DeleteTagOrManifest"
      R(status, code) ==
        [Response(op, ns, RandomUuid, status, code) EXCEPT !.ref = ref]
      t == IF Fails(f, "NewTxn") THEN 0 ELSE Len(txns) + 1
      T1 == IF Fails(f, "NewTxn") THEN txns ELSE NewTxn(txns)
      T2 == DeleteManifestOrTag(T1, t, ref)
  IN
  IF ~DeleteManifestOrTagOk(T1, configTable, t, ref, f)
  THEN [Cur EXCEPT !.txns = T1,
                   !.resp = [R(404, "MANIFEST_UNKNOWN") EXCEPT !.txn = t]]
  ELSE IF ~CommitOk(T2, layerTable, t, f)
  THEN [Cur EXCEPT !.txns = Close(T2, t, "aborted"),
                   !.resp = [R(202, "") EXCEPT !.txn = t]]
  ELSE [Cur EXCEPT !.txns = Close(T2, t, "committed"),
                   !.configTable =
                      {row \in @ : ~\E r \in T2[t].del.refs : RefMatches(row, r)},
                   !.resp = [R(202, "") EXCEPT !.txn = t]]

DeleteManifest ==
  \E ns \in Repos, ref \in Refs, f \in DeleteTagOrManifestFails :
    /\ Len(txns) < MaxStoreTxn
    /\ Apply(DeleteTagOrManifest(ns, ref, f))

\* ------------------------------------------- DELETE /blobs/<digest>
DeleteLayerV2Ok(T, t, f) == ~Fails(f, "DeleteLayerV2") /\ TxnOpen(T, t)
DeleteLayerV2(T, t, dig) == [T EXCEPT ![t].del.layers = @ \cup {dig}]
DeleteBlobV2Ok(T, t, f) == ~Fails(f, "DeleteBlobV2") /\ TxnOpen(T, t)
DeleteBlobV2(T, t, digs) == [T EXCEPT ![t].del.blobs = @ \cup digs]

DeleteLayerFails ==
  FailSetsOf({"GetLayer", "NewTxn", "DeleteLayerV2", "DeleteBlobV2", "Commit"})

DeleteLayer(ns, dig, f) ==
  LET op == "DeleteLayer"
      R(status, code) == Response(op, ns, RandomUuid, status, code)
      layer == GetLayer(layerTable, dig)
      blobs == layer.blobDigests
      t == IF Fails(f, "NewTxn") THEN 0 ELSE Len(txns) + 1
      T1 == IF Fails(f, "NewTxn") THEN txns ELSE NewTxn(txns)
      T2 == DeleteLayerV2(T1, t, dig)
      T3 == DeleteBlobV2(T2, t, Elems(blobs))
  IN
  IF Fails(f, "GetLayer") \/ ~LayerKnown(layerTable, dig)
  THEN [Cur EXCEPT !.resp = R(404, "BLOB_UNKNOWN")]
  ELSE IF ~DeleteLayerV2Ok(T1, t, f)
  THEN [Cur EXCEPT !.txns = T1,
                   !.resp = [R(500, "") EXCEPT !.txn = t, !.digest = dig]]
  ELSE IF blobs # <<>> /\ ~DeleteBlobV2Ok(T2, t, f)
  THEN [Cur EXCEPT !.txns = T2,
                   !.resp = [R(500, "") EXCEPT !.txn = t, !.digest = dig]]
  ELSE IF ~CommitOk(T3, layerTable, t, f)
  THEN [Cur EXCEPT !.txns = Close(T3, t, "aborted"),
                   !.resp = [R(202, "") EXCEPT !.txn = t, !.digest = dig]]
  ELSE [Cur EXCEPT !.txns = Close(T3, t, "committed"),
                   !.layerTable = {row \in @ : row.digest \notin T3[t].del.layers},
                   !.blobTable = {row \in @ : row.digest \notin T3[t].del.blobs},
                   !.resp = [R(202, "") EXCEPT !.txn = t, !.digest = dig]]

DeleteBlob ==
  \E ns \in Namespaces, dig \in ClientDigests, f \in DeleteLayerFails :
    /\ Len(txns) < MaxStoreTxn
    /\ Apply(DeleteLayer(ns, dig, f))


\* ------------------------------------------------------- CancelUpload
\* The handler returns nil: the request is answered 200 with nothing done.
CancelUpload(ns, id) == [Cur EXCEPT !.resp = Response("CancelUpload", ns, id, 200, "")]

Cancel ==
  \E ns \in Namespaces, id \in Issued : Apply(CancelUpload(ns, id))

\* Time passes, one session timeout at a time; no handler and no background
\* task reads the clock.
Tick ==
  /\ now < MaxTicks * Timeout
  /\ now' = now + Timeout
  /\ UNCHANGED <<regVars, authLog, patches, userVars>>


\* ----------------------- PATCH requests served at once (UploadBlob, no lock)
\* UploadBlob with a Content-Range, one shared-memory access at a time: no
\* mutex is taken, so requests on one uuid interleave between any two of them.
PatchVars == <<layerTable, blobTable, objects, localCache, nextId, resp,
               manifestTable, configTable, authLog, now, userTable,
               sessionTable, userResp>>

Goto(p, pc) == [patches EXCEPT ![p].pc = pc]

\* The request arrives: Content-Range start-end and a body.
PatchBegin(p) ==
  \E uuid \in Issued, start \in 0..MaxLen, body \in Bodies :
    /\ patches[p].pc = "idle"
    /\ Len(acked[uuid]) < MaxPatches
    /\ patches' = [patches EXCEPT ![p] = [Idle EXCEPT !.pc = "check", !.uuid = uuid,
                                                      !.start = start, !.body = body]]
    /\ UNCHANGED <<uploads, txnMap, txns, acked, PatchVars>>

\* if start != len(b.uploads[uuid])
PatchCheck(p) ==
  LET q == patches[p] IN
  /\ q.pc = "check"
  /\ patches' = IF RangeMismatch(q.start, q.uuid)
                THEN [patches EXCEPT ![p].pc = "done", ![p].status = 416]
                ELSE Goto(p, "read")
  /\ UNCHANGED <<uploads, txnMap, txns, acked, PatchVars>>

\* buf := bytes.NewBuffer(b.uploads[uuid]); io.Copy(buf, body)
PatchRead(p) ==
  LET q == patches[p] IN
  /\ q.pc = "read"
  /\ patches' = [patches EXCEPT ![p].pc = "write",
                                ![p].buf = UploadsGet(uploads, q.uuid) \o q.body]
  /\ UNCHANGED <<uploads, txnMap, txns, acked, PatchVars>>

\* b.uploads[uuid] = buf.Bytes()
PatchWrite(p) ==
  LET q == patches[p] IN
  /\ q.pc = "write"
  /\ uploads' = UploadsPut(uploads, q.uuid, q.buf)
  /\ patches' = Goto(p, "txn")
  /\ UNCHANGED <<txnMap, txns, acked, PatchVars>>

\* blobTransaction: txnOp, ok := txnMap[uuid]; store.SetBlob(txnOp.txn, blob)
PatchTxn(p) ==
  LET q == patches[p]
      txnOp == txnMap[q.uuid]
      blob == [digest |-> digest(q.buf), skylink |-> NoLink, uuid |-> q.uuid,
               rangeStart |-> 0, rangeEnd |-> Uint32(Len(q.buf) - 1)]
  IN
  /\ q.pc = "txn"
  /\ IF ~txnOp.has \/ ~SetBlobOk(txns, txnOp.txn, {})
     THEN /\ patches' = [patches EXCEPT ![p].pc = "done", ![p].status = 400]
          /\ txns' = txns
     ELSE /\ patches' = [patches EXCEPT ![p].pc = "append",
                                        ![p].seen = txnOp]
          /\ txns' = SetBlob(txns, txnOp.txn, blob)
  /\ UNCHANGED <<uploads, txnMap, acked, PatchVars>>

\* txnOp.blobDigests = append(txnOp.blobDigests, blob.Digest);
\* txnMap[uuid] = txnOp; the request is answered 202.
PatchAppend(p) ==
  LET q == patches[p] IN
  /\ q.pc = "append"
  /\ txnMap' = TxnMapPut(txnMap, q.uuid,
                          [q.seen EXCEPT !.blobDigests = AppendDigest(@, digest(q.buf))])
  /\ acked' = [acked EXCEPT ![q.uuid] = Append(@, q.body)]
  /\ patches' = [patches EXCEPT ![p].pc = "done", ![p].status = 202]
  /\ UNCHANGED <<uploads, txns, PatchVars>>

Patch ==
  \E p \in Procs :
    \/ PatchBegin(p)
    \/ PatchCheck(p)
    \/ PatchRead(p)
    \/ PatchWrite(p)
    \/ PatchTxn(p)
    \/ PatchAppend(p)


\* ------------------------------------------------ JWT and ACL middleware
Methods == {"GET", "HEAD", "POST", "PUT", "PATCH", "DELETE"}
Users == {"carol", "dave"}
\* ctx.Get(JWT_AUTH_KEY): never set, or set to a bool by the route.
AuthMarks == {"unset", "true", "false"}
Tokens == {NoToken, [kind |-> "invalid", sub |-> ""]}
          \cup {[kind |-> "valid", sub |-> u] : u \in Users \cup {""}}

SkipperAlways(mark) == TRUE
\* JWTConfig.Skipper
Skipper(mark) == IF mark = "true" THEN FALSE ELSE TRUE

\* middleware.JWTWithConfig with this configuration: [next, user, status]
JWT(mark, token) ==
  IF Skipper(mark)
  THEN [next |-> TRUE, user |-> NoToken, status |-> 0]
  ELSE IF token.kind = "valid"
  THEN [next |-> TRUE, user |-> token, status |-> 0]
  ELSE [next |-> FALSE, user |-> NoToken, status |-> 401]

ReadMethod(m) == m = "GET" \/ m = "HEAD"
SubjectAny(subject, username) == TRUE
SubjectMatches(subject, username) == subject = username

\* ACL: does the wrapped handler hf run?
ACL(m, user, username) ==
  IF ReadMethod(m) THEN TRUE
  ELSE IF user.kind # "valid" THEN FALSE
  ELSE SubjectMatches(user.sub, username)

\* One request through JWT, then ACL, then the handler.
Pipeline(m, mark, token, username) ==
  LET j == JWT(mark, token)
      allowed == ACL(m, j.user, username)
  IN [method |-> m, mark |-> mark, token |-> token, username |-> username,
      verified |-> j.user.kind = "valid",
      aclRan |-> j.next,
      handlerRan |-> j.next /\ allowed,
      status |-> IF ~j.next THEN j.status ELSE IF allowed THEN 200 ELSE 401]

Serve ==
  \E m \in Methods, mark \in AuthMarks, token \in Tokens, username \in Users :
    /\ authLog' = Pipeline(m, mark, token, username)
    /\ UNCHANGED <<regVars, now, patches, userVars>>


\* ------------------------------------------------ GET /tags/list?n=<n>
\* The query value n as the characters of the request.
Limits == {<<>>, <<"x">>, <<"0">>, <<"1">>, <<"2">>, <<"3">>, <<"-", "1">>}
DigitChars == {"0", "1", "2", "3"}
DigitValue(ch) == CASE ch = "0" -> 0 [] ch = "1" -> 1 [] ch = "2" -> 2 [] ch = "3" -> 3

\* strconv.ParseInt(limit, 10, 32): an optional sign, then one digit or more.
RECURSIVE ParseDigits(_, _)
ParseDigits(chars, acc) ==
  IF chars = <<>> THEN [ok |-> TRUE, n |-> acc]
  ELSE IF Head(chars) \notin DigitChars THEN [ok |-> FALSE, n |-> 0]
  ELSE ParseDigits(Tail(chars), acc * 10 + DigitValue(Head(chars)))

ParseInt(chars) ==
  LET signed == chars # <<>> /\ Head(chars) \in {"-", "+"}
      digits == IF signed THEN Tail(chars) ELSE chars
      p == ParseDigits(digits, 0)
  IN
  IF digits = <<>> \/ ~p.ok THEN [ok |-> FALSE, n |-> 0]
  ELSE IF signed /\ Head(chars) = "-" THEN [ok |-> TRUE, n |-> 0 - p.n]
  ELSE p

\* The tags of a namespace, in each order their rows may have been inserted.
TagsOf(C, ns) ==
  {row.reference : row \in {c \in C : c.namespace = ns /\ ~IsDigest(c.reference)}}
Orders(S) ==
  {t \in [1..Cardinality(S) -> S] : \A i, j \in DOMAIN t : t[i] = t[j] => i = j}
GetImageTags(C, ns) == Orders(TagsOf(C, ns))

\* tags[0:n] on a slice of capacity cap: the entries past len(tags) are the
\* zero strings of its backing array, and n > cap panics.
NoTag == <<"tag", "">>
Reslice(t, n) == [i \in 1..n |-> IF i <= Len(t) THEN t[i] ELSE NoTag]

ListTagsFails == FailSetsOf({"GetImageTags"})

\* t: what GetImageTags returned, cap: the capacity of that slice.
ListTagsResponse(t, cap, ns, limit, f) ==
  LET op == "ListTags"
      R(status, code) == Response(op, ns, RandomUuid, status, code)
      p == ParseInt(limit)
  IN
  IF Fails(f, "GetImageTags")
  THEN R(404, "TAG_INVALID")
  ELSE IF limit = <<>>
  THEN [R(200, "") EXCEPT !.tags = t]
  ELSE IF ~p.ok
  THEN R(404, "TAG_INVALID")
  ELSE IF p.n > cap
  THEN R(500, "")
  ELSE IF p.n > 0
  THEN [R(200, "") EXCEPT !.tags = Reslice(t, p.n)]
  ELSE IF p.n = 0
  THEN R(200, "")
  ELSE [R(200, "") EXCEPT !.tags = t]

ListTags(t, cap, ns, limit, f) ==
  [Cur EXCEPT !.resp = ListTagsResponse(t, cap, ns, limit, f)]

GetTags ==
  \E ns \in Repos, limit \in Limits, f \in ListTagsFails :
    \E t \in GetImageTags(configTable, ns) :
      \E cap \in Len(t)..(Len(t) + 1) :
        Apply(ListTags(t, cap, ns, limit, f))

\* ------------------------------------------- users and sessions (postgres)
UserKnown(U, id) == \E u \in U : u.id = id
UserById(U, id) == CHOOSE u \in U : u.id = id
NameKnown(U, username) == \E u \in U : u.username = username
UserByName(U, username) == CHOOSE u \in U : u.username = username
SessionKnown(S, sid) == \E s \in S : s.id = sid
SessionById(S, sid) == CHOOSE s \in S : s.id = sid

UserReturn(op, arg, err, user) == [op |-> op, arg |-> arg, err |-> err, user |-> user]

\* insert into users (id, is_active, username, ...): the id is the caller's,
\* and the row is refused when its id or its username is taken.
AddUser(U, u) ==
  IF UserKnown(U, u.id) \/ NameKnown(U, u.username)
  THEN [err |-> TRUE, users |-> U]
  ELSE [err |-> FALSE, users |-> U \cup {u}]

\* update users set is_active = $1, updated_at = $2 where id = $3
UpdateUser(U, userId, isActive) ==
  {IF u.id = userId THEN [u EXCEPT !.isActive = isActive] ELSE u : u \in U}

\* delete from users where username = $1; whether the session rows of the
\* user go with it is the table definition's choice.
DeleteUserKeepsRow(U, S, username, cascade) == [users |-> U, sessions |-> S]
DeleteUser(U, S, username, cascade) ==
  LET gone == {u.id : u \in {v \in U : v.username = username}} IN
  [users |-> {u \in U : u.username # username},
   sessions |-> IF cascade THEN {s \in S : s.owner \notin gone} ELSE S]

\* insert into session (id, refresh_token, owner)
\*   values ($1, $2, (select id from users where username = $3))
AddSession(U, S, sid, username) ==
  IF SessionKnown(S, sid) \/ ~NameKnown(U, username)
  THEN [err |-> TRUE, sessions |-> S]
  ELSE [err |-> FALSE,
        sessions |-> S \cup {[id |-> sid, owner |-> UserByName(U, username).id]}]

\* delete from session where id = $1 and owner = $2
DeleteSession(S, sid, owner) == {s \in S : ~(s.id = sid /\ s.owner = owner)}

\* select ... from users where id = (select owner from session where id = $1);
\* row.Scan fails when the query has no row.
GetUserWithSession(U, S, sessionId) ==
  IF ~SessionKnown(S, sessionId)
  THEN UserReturn("GetUserWithSession", sessionId, TRUE, NoUser)
  ELSE IF ~UserKnown(U, SessionById(S, sessionId).owner)
  THEN UserReturn("GetUserWithSession", sessionId, TRUE, NoUser)
  ELSE UserReturn("GetUserWithSession", sessionId, FALSE,
                  UserById(U, SessionById(S, sessionId).owner))

Register ==
  \E id \in UserIds, isActive \in BOOLEAN :
    LET r == AddUser(userTable, [id |-> id, username |-> id, isActive |-> isActive]) IN
    /\ userTable' = r.users
    /\ userResp' = UserReturn("AddUser", id, r.err, NoUser)
    /\ UNCHANGED <<regVars, authLog, now, patches, sessionTable>>

SetActive ==
  \E id \in UserIds, isActive \in BOOLEAN :
    /\ userTable' = UpdateUser(userTable, id, isActive)
    /\ userResp' = UserReturn("UpdateUser", id, FALSE, NoUser)
    /\ UNCHANGED <<regVars, authLog, now, patches, sessionTable>>

RemoveUser ==
  \E username \in UserIds, cascade \in BOOLEAN :
    LET r == DeleteUser(userTable, sessionTable, username, cascade) IN
    /\ userTable' = r.users
    /\ sessionTable' = r.sessions
    /\ userResp' = UserReturn("DeleteUser", username, FALSE, NoUser)
    /\ UNCHANGED <<regVars, authLog, now, patches>>

Login ==
  \E sid \in SessionIds, username \in UserIds :
    LET r == AddSession(userTable, sessionTable, sid, username) IN
    /\ sessionTable' = r.sessions
    /\ userResp' = UserReturn("AddSession", sid, r.err, NoUser)
    /\ UNCHANGED <<regVars, authLog, now, patches, userTable>>

Logout ==
  \E sid \in SessionIds, owner \in UserIds :
    /\ sessionTable' = DeleteSession(sessionTable, sid, owner)
    /\ userResp' = UserReturn("DeleteSession", sid, FALSE, NoUser)
    /\ UNCHANGED <<regVars, authLog, now, patches, userTable>>

WhoAmI ==
  \E sid \in SessionIds :
    /\ userResp' = GetUserWithSession(userTable, sessionTable, sid)
    /\ UNCHANGED <<regVars, authLog, now, patches, userTable, sessionTable>>

Next == StartUpload \/ ChunkedUpload \/ FinishUpload \/ GetBlob

Spec == Init /\ [][Next]_vars

\* The handler main.go leaves unrouted, next to the POST that replaced it.
NextMonolithic == PutMonolithic \/ StartUpload

SpecMonolithic == Init /\ [][NextMonolithic]_vars

\* The manifest handlers.
NextManifest == PutManifest \/ GetManifest \/ DeleteManifest

SpecManifest == Init /\ [][NextManifest]_vars

\* Manifests together with the layers they name.
NextReferences == PutManifest \/ DeleteBlob \/ StartUpload

SpecReferences == Init /\ [][NextReferences]_vars

\* The chunked upload, with the delete of the layers it commits.
NextLayers == Next \/ DeleteBlob

SpecLayers == Init /\ [][NextLayers]_vars

\* Upload sessions over time: the handlers that touch the session map, the
\* cancel handler and the clock.  Time always passes and a client may always
\* cancel.
NextSessions == StartUpload \/ ChunkedUpload \/ FinishUpload \/ Cancel \/ Tick

SpecSessions ==
  Init /\ [][NextSessions]_vars /\ WF_vars(Tick) /\ WF_vars(Cancel)

\* Two PATCH requests in flight on the sessions POST has opened.
NextConcurrent == StartUpload \/ Patch

SpecConcurrent == Init /\ [][NextConcurrent]_vars

\* POST /blobs/uploads/ without a digest: the branch that opens a session.
OpenSession ==
  \E ns \in Namespaces, f \in StartUploadFails :
    /\ Len(txns) < MaxTxn
    /\ nextId <= MaxUploads
    /\ Apply(StartUploadSession(ns, f))

\* ------------------------------------ the routes of /blobs/uploads/<uuid>
\* The name main.go gives the last path parameter of the route of a method.
UploadRouteParam(method) ==
  CASE method = "PUT" -> "reference"
    [] method = "PATCH" -> "buggu"
    [] OTHER -> "uuid"

\* ctx.Param(name) on a request of that method to /blobs/uploads/<segment>.
Param(method, name, segment) ==
  IF UploadRouteParam(method) = name THEN segment ELSE EmptyUuid

\* PATCH /v2/<name>/blobs/uploads/<u> through the router.
ServePatch ==
  \E ns \in Namespaces, u \in Issued, cr \in ContentRanges, body \in Bodies,
     f \in UploadBlobFails :
    LET uuid == Param("PATCH", "uuid", u) IN
    /\ Len(acked[uuid]) < MaxPatches
    /\ Len(UploadsGet(uploads, uuid)) + Len(body) <= MaxLen
    /\ Apply(UploadBlob(ns, uuid, cr, body, Len(body), f))

\* PUT /v2/<name>/blobs/uploads/<u>?digest=<d> through the router.
ServePut ==
  \E ns \in Namespaces, u \in Issued, dig \in ClientDigests, body \in Bodies,
     f \in CompleteUploadFails :
    LET id == Param("PUT", "uuid", u) IN
    /\ Len(UploadsGet(uploads, id)) + Len(body) <= MaxLen
    /\ CanUpload(Link(BlobNamespace(ns), dig, UploadsGet(uploads, id) \o body))
    /\ Apply(CompleteUpload(ns, id, dig, body, f))

\* The upload requests as the router hands them to the handlers.
NextRouted == OpenSession \/ ServePatch \/ ServePut

SpecRouted == Init /\ [][NextRouted]_vars

\* A PUT finalize served while PATCH requests on the sessions are in flight.
NextFinalizeRace == OpenSession \/ Patch \/ FinishUpload

SpecFinalizeRace == Init /\ [][NextFinalizeRace]_vars

NextAuth == Serve

SpecAuth == Init /\ [][NextAuth]_vars

\* Upload sessions and the progress reported on them.
NextProgress == StartUpload \/ ChunkedUpload \/ GetProgress

SpecProgress == Init /\ [][NextProgress]_vars

\* Layers pushed, deleted and probed with HEAD.
NextBlobHead ==
  StartUpload \/ FinishUpload \/ PutMonolithic \/ DeleteBlob \/ HeadBlob

SpecBlobHead == Init /\ [][NextBlobHead]_vars

\* Manifests pushed and probed with HEAD.
NextManifestHead == PutManifest \/ HeadManifest

SpecManifestHead == Init /\ [][NextManifestHead]_vars

\* The tags of the manifests pushed, listed.
NextTags == PutManifest \/ GetTags

SpecTags == Init /\ [][NextTags]_vars

\* The users and session tables under the store's calls.
NextUsers == Register \/ SetActive \/ RemoveUser \/ Login \/ Logout \/ WhoAmI

SpecUsers == Init /\ [][NextUsers]_vars

\* ================================================================= claims
RECURSIVE TotalLen(_)
TotalLen(bodies) ==
  IF bodies = <<>> THEN 0 ELSE Len(Head(bodies)) + TotalLen(Tail(bodies))

\* The bytes of the PATCH requests on uuid that were answered 202.
AckedLen(uuid) == TotalLen(acked[uuid])

\* C1: for an open session whose accepted bytes total n, a PATCH carrying
\* Content-Range s-e is answered 202 if and only if s = n, and every other
\* start is answered 416 (every store call of the PATCH succeeding).
C1_PatchAcceptedIffStartIsAcceptedTotal ==
  \A ns \in Namespaces, uuid \in Issued, cr \in ContentRanges, body \in Bodies :
    (HasTxn(uuid) /\ TxnOpen(txns, txnMap[uuid].txn) /\ cr.kind = "range") =>
      LET r == UploadBlob(ns, uuid, cr, body, Len(body), {}).resp
          n == AckedLen(uuid)
      IN  /\ (r.status = 202) <=> (cr.start = n)
          /\ (cr.start # n) => (r.status = 416)

\* C3: a PUT whose digest differs from the digest of buffer plus body is
\* answered 400 DIGEST_INVALID, the session's transaction is aborted and the
\* session removed, and a following PATCH on the same uuid is answered 404.
C3_MismatchStep ==
  \A ns \in Namespaces, id \in Issued, dig \in ClientDigests, body \in Bodies :
    ( /\ HasTxn(id)
      /\ digest(UploadsGet(uploads, id) \o body) # dig
      /\ Apply(CompleteUpload(ns, id, dig, body, {})) ) =>
      /\ resp'.status = 400
      /\ resp'.code = "DIGEST_INVALID"
      /\ txns'[txnMap[id].txn].state = "aborted"
      /\ ~txnMap'[id].has
      /\ \A cr \in ContentRanges, b \in Bodies, f \in UploadBlobFails :
           (UploadBlob(ns, id, cr, b, Len(b), f).resp.status)' = 404

C3_MismatchAbortsAndRemovesSession == [][C3_MismatchStep]_vars

\* C9: when a handler answers with an error after a store write, an object
\* store operation or the digest check failed, the transaction it worked on
\* (resp.txn) has been aborted: it is not left open.
C9_NoTxnOpenAfterError ==
  (resp.status >= 400 /\ resp.txn # 0) => txns[resp.txn].state # "open"

\* C10: a PATCH is answered 202 only if its Blob Fragment row was written in
\* the session's transaction.
C10_AcceptedOnlyIfFragmentWritten ==
  (resp.op = "UploadBlob" /\ resp.status = 202) => resp.wrote

\* C2: every layer an upload handler records has the digest of the bytes
\* stored under its object key, and no bytes are uploaded to the object
\* store under a digest that is not theirs.
C2_RecordedLayersMatchTheirBytes ==
  /\ \A row \in layerTable :
       row.skynetLink \in objects /\ digest(row.skynetLink.content) = row.digest
  /\ \A ns \in Namespaces :
       localCache[ns].has =>
         digest(localCache[ns].skynetLink.content) = localCache[ns].digest
  /\ \A link \in objects : digest(link.content) = link.name

\* C4: a finalize answered 201 carries Location /v2/<name>/blobs/<d> and
\* Docker-Content-Digest d, has committed exactly one Layer row with digest d
\* in the session's transaction, and leaves neither session nor buffer; from
\* then on every PATCH and every PUT on that uuid is rejected.
C4_FinalizeAnswer ==
  (resp.op = "CompleteUpload" /\ resp.status = 201) =>
    /\ resp.location = BlobLocation(resp.ns, resp.digest)
    /\ Cardinality({row \in layerTable : row.digest = resp.digest}) = 1
    /\ \E row \in layerTable : row.digest = resp.digest /\ row.uuid = resp.uuid
    /\ txns[resp.txn].state = "committed"
    /\ ~HasTxn(resp.uuid)
    /\ ~HasUpload(resp.uuid)

Finalized(id) == \E row \in layerTable : row.uuid = id

C4_FinalizedRejects ==
  \A ns \in Namespaces, id \in Issued :
    Finalized(id) =>
      /\ ~HasTxn(id)
      /\ \A cr \in ContentRanges, b \in Bodies, f \in UploadBlobFails :
           UploadBlob(ns, id, cr, b, Len(b), f).resp.status >= 400
      /\ \A dig \in ClientDigests, b \in Bodies, f \in CompleteUploadFails :
           CompleteUpload(ns, id, dig, b, f).resp.status >= 400

Pulled(L, O, ns, d) == PullLayerResponse(L, O, ns, d, {})

C5_PushAnswer ==
  /\ (resp.op = "StartUpload" /\ resp.status = 201) =>
       LET link == resp.location[2]
           got == Pulled(layerTable, objects, resp.ns, link.name)
       IN  got.status = 200 /\ got.body = link.content /\ got.digest = link.name
  /\ (resp.op = "CompleteUpload" /\ resp.status = 201) =>
       LET got == Pulled(layerTable, objects, resp.ns, resp.digest)
       IN  got.status = 200 /\ digest(got.body) = resp.digest
           /\ got.digest = resp.digest

C5_PulledAsPushed ==
  \A ns \in Namespaces, row \in layerTable :
    /\ Pulled(layerTable, objects, ns, row.digest).status = 200
    /\ digest(Pulled(layerTable, objects, ns, row.digest).body) = row.digest
    /\ Pulled(layerTable, objects, ns, row.digest).digest = row.digest

C5_PushThenPullRoundTrip == C5_PushAnswer /\ C5_PulledAsPushed

C5_Witness ==
  /\ resp.op = "PullLayer"
  /\ resp.status = 200
  /\ Len(resp.body) = MaxLen
  /\ \E row \in layerTable : row.digest = resp.digest /\ row.uuid \in Ids

\* C6: for a body B with digest d the monolithic POST and the sequence POST,
\* PATCH B, PUT ?digest=d end alike: 201, Location /v2/<name>/blobs/<d>, the
\* same Layer row (digest, size, object content), no upload session left.
Outcome(r, ns, id, d) ==
  [status |-> r.resp.status,
   location |-> r.resp.location,
   rows |-> {[digest |-> row.digest, size |-> row.size,
              content |-> row.skynetLink.content] :
               row \in {x \in r.layerTable : x.digest = d}},
   session |-> r.txnMap[id].has]

C6_MonolithicEqualsChunked ==
  \A ns \in Namespaces, id \in Issued, B \in Bodies :
    ( /\ HasTxn(id)
      /\ TxnOpen(txns, txnMap[id].txn)
      /\ acked[id] = <<B>>
      /\ UploadsGet(uploads, id) = B
      /\ ~LayerKnown(layerTable, digest(B)) ) =>
      LET d == digest(B)
          chunked == Outcome(CompleteUpload(ns, id, d, <<>>, {}), ns, id, d)
          mono == Outcome([StartUploadMonolithic(ns, d, B, {}) EXCEPT
                             !.txnMap = TxnMapDelete(@, id)], ns, id, d)
      IN  /\ chunked = mono
          /\ chunked.status = 201
          /\ chunked.location = BlobLocation(ns, d)

\* C7: through the ACL middleware a GET or HEAD always reaches the handler;
\* any other method reaches it if and only if a verified token is present
\* and its subject equals the username path parameter, and is otherwise
\* answered 401 without the handler running.
C7_AclAllowsReadsAndOwners ==
  authLog.aclRan =>
    /\ ReadMethod(authLog.method) => authLog.handlerRan
    /\ ~ReadMethod(authLog.method) =>
         (authLog.handlerRan <=>
            (authLog.verified /\ authLog.token.sub = authLog.username))
    /\ ~authLog.handlerRan => authLog.status = 401

C7_Witness ==
  /\ authLog.aclRan
  /\ authLog.method = "PUT"
  /\ authLog.verified
  /\ authLog.token.sub = "carol"
  /\ authLog.username = "dave"
  /\ authLog.status = 401
  /\ ~authLog.handlerRan

\* C8: on a route marked authenticated a request without a valid token is
\* answered 401 and neither ACL nor the handler runs; on any other route the
\* JWT middleware passes the request on without verifying a token, and a
\* mutating request reaching ACL that way is answered 401.
C8_JwtGuardsMarkedRoutesOnly ==
  authLog.method # "none" =>
    /\ (authLog.mark = "true" /\ authLog.token.kind # "valid") =>
         (authLog.status = 401 /\ ~authLog.aclRan /\ ~authLog.handlerRan)
    /\ authLog.mark # "true" => (authLog.aclRan /\ ~authLog.verified)
    /\ (authLog.mark # "true" /\ ~ReadMethod(authLog.method)) =>
         (authLog.status = 401 /\ ~authLog.handlerRan)

C8_Witness ==
  /\ authLog.mark = "false"
  /\ authLog.method = "POST"
  /\ authLog.token.kind = "valid"
  /\ authLog.token.sub = authLog.username
  /\ authLog.aclRan
  /\ authLog.status = 401

\* C11: a DELETE of a manifest is answered 202 only if the deletion was
\* committed; when opening the transaction or the commit fails, the answer is
\* an error and the manifest rows are as before.
C11_DeleteAcceptedOnlyIfCommitted ==
  \A ns \in Repos, ref \in Refs, f \in DeleteTagOrManifestFails :
    LET r == DeleteTagOrManifest(ns, ref, f)
    IN  /\ r.resp.status = 202 =>
             (r.resp.txn # 0 /\ r.txns[r.resp.txn].state = "committed")
        /\ (Fails(f, "NewTxn") \/ Fails(f, "Commit")) =>
             (r.resp.status >= 400 /\ r.configTable = configTable)

\* C12: PushManifest calls, in this order, the object-store upload, NewTxn,
\* SetManifest, SetConfig and Commit, each only after the one before it
\* succeeded and the store calls on one transaction; every committed Config
\* row's object key names bytes the object store holds.
PushOrder == <<"Upload", "NewTxn", "SetManifest", "SetConfig", "Commit">>

C12_ManifestPushOrder ==
  /\ resp.op = "PushManifest" =>
       /\ \A i \in DOMAIN resp.events :
            resp.events[i].call # "Abort" =>
              /\ i <= Len(PushOrder)
              /\ resp.events[i].call = PushOrder[i]
              /\ i > 1 => resp.events[i - 1].ok
              /\ i > 2 => resp.events[i].txn = resp.events[2].txn
       /\ resp.status = 201 =>
            /\ Len(resp.events) = Len(PushOrder)
            /\ resp.events[Len(PushOrder)].ok
            /\ txns[resp.txn].state = "committed"
  /\ \A row \in configTable :
       row.skylink \in objects /\ digest(row.skylink.content) = row.digest

C12_Witness ==
  /\ resp.op = "PushManifest"
  /\ resp.status = 201
  /\ \E row \in configTable :
       row.reference = resp.ref /\ row.namespace = resp.ns /\ row.layers # <<>>

\* C13: after a manifest M is pushed with tag T in namespace N, GET by T and
\* GET by digest(M) in N answer 200 with the bytes of M and
\* Docker-Content-Digest digest(M), as long as the row is there (the store
\* and the object store answering).
PulledManifest(C, O, ns, ref) == PullManifestResponse(C, O, ns, ref, {})

PulledIs(got, d) == got.status = 200 /\ digest(got.body) = d /\ got.digest = d

C13_PushAnswer ==
  (resp.op = "PushManifest" /\ resp.status = 201 /\ ~IsDigest(resp.ref)) =>
    /\ PulledIs(PulledManifest(configTable, objects, resp.ns, resp.ref), resp.digest)
    /\ PulledIs(PulledManifest(configTable, objects, resp.ns, resp.digest), resp.digest)

C13_LiveReferences ==
  \A row \in configTable :
    /\ ~IsDigest(row.reference) =>
         PulledIs(PulledManifest(configTable, objects, row.namespace, row.reference),
                  row.digest)
    /\ PulledIs(PulledManifest(configTable, objects, row.namespace, row.digest),
                row.digest)

C13_PushedManifestPullsByTagAndDigest == C13_PushAnswer /\ C13_LiveReferences

C13_Witness ==
  /\ resp.op = "PullManifest"
  /\ resp.status = 200
  /\ IsDigest(resp.ref)
  /\ Len(resp.body) > 1
  /\ \E row \in configTable :
       row.namespace = resp.ns /\ row.digest = resp.ref /\ ~IsDigest(row.reference)

\* C14: a DELETE by tag answered 202 leaves every row with another tag in
\* place, and a DELETE by digest answered 202 leaves no row with that digest
\* in the namespace.
C14_DeleteByTagKeepsOthersByDigestRemovesAll ==
  \A ns \in Repos, ref \in Refs, f \in DeleteTagOrManifestFails :
    LET r == DeleteTagOrManifest(ns, ref, f)
    IN  r.resp.status = 202 =>
          IF IsDigest(ref)
          THEN ~ManifestKnown(r.configTable, ns, ref)
          ELSE \A row \in configTable : row.reference # ref => row \in r.configTable

\* C15: a DELETE by tag removes the row tagged ref in the request's namespace
\* only, leaving the rows of every other namespace as they are, and a ref that
\* matches nothing in the namespace is answered 404 MANIFEST_UNKNOWN.
C15_DeleteByTagStaysInItsNamespace ==
  \A ns \in Repos, ref \in Tags, f \in DeleteTagOrManifestFails :
    LET r == DeleteTagOrManifest(ns, ref, f)
    IN  /\ \A row \in configTable : row.namespace # ns => row \in r.configTable
        /\ ~ManifestKnown(configTable, ns, ref) =>
             (r.resp.status = 404 /\ r.resp.code = "MANIFEST_UNKNOWN")

\* C16: after a DELETE of a layer, whatever its answer, the Layer row and the
\* Blob Fragment rows of its blobDigests are all deleted or all in place; a
\* failing delete or commit leaves them in place and no transaction open.
C16_DeleteLayerIsAtomic ==
  \A ns \in Namespaces, dig \in ClientDigests, f \in DeleteLayerFails :
    LayerKnown(layerTable, dig) =>
      LET r == DeleteLayer(ns, dig, f)
          frags == Elems(GetLayer(layerTable, dig).blobDigests)
          gone == /\ ~LayerKnown(r.layerTable, dig)
                  /\ \A b \in r.blobTable : b.digest \notin frags
          kept == r.layerTable = layerTable /\ r.blobTable = blobTable
      IN  /\ gone \/ kept
          /\ f # {} => kept
          /\ r.resp.txn # 0 => r.txns[r.resp.txn].state # "open"

\* C19: every layer digest in the layers of a committed Config row has a
\* Layer row whose object the object store holds.
C19_LiveManifestsNameKnownLayers ==
  \A row \in configTable :
    \A i \in DOMAIN row.layers :
      \E layer \in layerTable :
        layer.digest = row.layers[i] /\ layer.skynetLink \in objects

\* C17: every upload session is removed in the end, by its deadline passing
\* or by a cancel: no uuid stays in the session map forever.  Stated for the
\* sessions opened at time 0, whose deadline lies within the clock's range.
C17_SessionsEventuallyEnd ==
  \A id \in Ids : (HasTxn(id) /\ now = 0) ~> ~HasTxn(id)

Quiet == \A p \in Procs : patches[p].pc \in {"idle", "done"}

C18_ConcurrentPatchesKeepAcknowledgedBytes ==
  \A id \in Issued :
    (HasTxn(id) /\ Quiet) =>
      /\ Len(UploadsGet(uploads, id)) = AckedLen(id)
      /\ Len(txnMap[id].blobDigests) = Len(acked[id])

\* C21: GetUserWithSession returns a user only for a session that exists, whose
\* owner exists and is active; for a session whose owner is inactive or absent
\* it returns an error.
C21_SessionUserIsActive ==
  \A sid \in SessionIds :
    LET r == GetUserWithSession(userTable, sessionTable, sid)
        s == SessionById(sessionTable, sid)
        valid == /\ SessionKnown(sessionTable, sid)
                 /\ UserKnown(userTable, s.owner)
                 /\ UserById(userTable, s.owner).isActive
    IN r.err <=> ~valid

\* C22: with the tags t of a namespace in insertion order, the tag list answers
\* 200 with the first min(n, |t|) tags when n > 0, with no tags when n = 0 and
\* with all of t when n is absent, and 404 TAG_INVALID when n is not a number.
Min(a, b) == IF a < b THEN a ELSE b

C22_TagListTruncatesToN ==
  \A ns \in Repos, limit \in Limits :
    \A t \in GetImageTags(configTable, ns) :
      \A cap \in Len(t)..(Len(t) + 1) :
        LET r == ListTagsResponse(t, cap, ns, limit, {})
            p == ParseInt(limit)
        IN
        /\ limit = <<>> => r.status = 200 /\ r.tags = t
        /\ limit # <<>> /\ ~p.ok => r.status = 404 /\ r.code = "TAG_INVALID"
        /\ p.ok /\ p.n = 0 => r.status = 200 /\ r.tags = <<>>
        /\ p.ok /\ p.n > 0 =>
             r.status = 200 /\ r.tags = SubSeq(t, 1, Min(p.n, Len(t)))

C24_PullLayerVerifiesDigest ==
  \A ns \in Namespaces, d \in ClientDigests, f \in PullLayerFails :
    LET r == PullLayerResponse(layerTable, objects, ns, d, f)
        known == LayerKnown(layerTable, d)
        layer == GetLayer(layerTable, d)
    IN
    /\ r.status = 200 => digest(r.body) = d /\ r.digest = d
    /\ known /\ layer.skynetLink \in objects /\ f = {"Corrupt"} =>
         r.status = 404 /\ r.code = "BLOB_UPLOAD_UNKNOWN"
    /\ ~known \/ layer.skynetLink = NoLink \/ layer.skynetLink \notin objects =>
         r.status = 404 /\ r.code = "BLOB_UNKNOWN"

C24_Witness ==
  /\ resp.op = "PullLayer"
  /\ resp.code = "BLOB_UPLOAD_UNKNOWN"
  /\ LayerKnown(layerTable, resp.ref)
  /\ GetLayer(layerTable, resp.ref).skynetLink \in objects

\* C25: HEAD of a blob answers 200 with Docker-Content-Digest = digest exactly
\* when a layer of that digest exists: after a successful push of the layer it
\* answers 200, after a successful delete 404.
C25_HeadBlobIffLayerExists ==
  \A ns \in Namespaces, d \in ClientDigests :
    LET r == HEADResponse(localCache, objects, ns, d, {}) IN
    /\ r.status = 200 <=> LayerKnown(layerTable, d)
    /\ r.status = 200 => r.digest = d
    /\ r.status # 200 => r.status = 404

\* C26: the progress of an open session with n accepted bytes is answered 204
\* with Range 0 to n - 1 (0-0 when n = 0) and the session's upload location.
C26_ProgressReportsAcceptedBytes ==
  \A ns \in Namespaces, id \in Issued :
    HasTxn(id) =>
      LET r == UploadProgressResponse(localCache, objects, ns, id, {})
          n == AckedLen(id)
      IN
      /\ r.status = 204
      /\ r.location = UploadLocation(ns, id)
      /\ r.range = IF n = 0 THEN 0 ELSE n - 1

\* The sessions a PATCH can still write to: open, with their transaction open.
Writable(uuid) == HasTxn(uuid) /\ TxnOpen(txns, txnMap[uuid].txn)
NoContentRange == [kind |-> "absent", start |-> 0, end |-> 0]

\* C27: a PATCH without Content-Range is accepted exactly when no bytes have
\* been accepted for the uuid before; once bytes have been accepted it is
\* answered 400 BLOB_UPLOAD_INVALID and the buffer stays as it was.
C27_StreamPatchOnlyAsSoleChunk ==
  \A ns \in Namespaces, uuid \in Issued, body \in Bodies :
    Writable(uuid) =>
      LET r == UploadBlob(ns, uuid, NoContentRange, body, Len(body), {})
          n == AckedLen(uuid)
      IN
      /\ r.resp.status = 202 <=> n = 0
      /\ n > 0 => /\ r.resp.status = 400
                  /\ r.resp.code = "BLOB_UPLOAD_INVALID"
                  /\ r.uploads = uploads

\* C28: for every upload uuid the buffer is as long as the bodies of the PATCH
\* requests on it that were answered 202; a PATCH answered with an error adds
\* no bytes.
C28_BufferIsAcknowledgedBytes ==
  \A uuid \in Issued :
    HasTxn(uuid) => Len(UploadsGet(uploads, uuid)) = AckedLen(uuid)

\* C29: after a PATCH with Content-Range s-e is accepted, the accepted total is
\* e + 1 and the Range answered is 0-e: the body is e - s + 1 bytes long.
C29_AcceptedPatchEndsAtRangeEnd ==
  \A ns \in Namespaces, uuid \in Issued, cr \in ContentRanges, body \in Bodies :
    (Writable(uuid) /\ cr.kind = "range") =>
      LET r == UploadBlob(ns, uuid, cr, body, Len(body), {}) IN
      r.resp.status = 202 =>
        /\ TotalLen(r.acked[uuid]) = cr.end + 1
        /\ r.resp.range = cr.end
        /\ Len(body) = cr.end - cr.start + 1

\* C30: the Blob Fragment row of an accepted PATCH carrying the bytes c at
\* offset s has the digest of c alone, range_start = s and
\* range_end = s + |c| - 1.
C30_FragmentRowDescribesTheChunk ==
  \A ns \in Namespaces, uuid \in Issued, cr \in ContentRanges, body \in Bodies :
    (Writable(uuid) /\ cr.kind = "range" /\ body # <<>>) =>
      LET r == UploadBlob(ns, uuid, cr, body, Len(body), {})
          rows == r.txns[txnMap[uuid].txn].blobs
      IN
      r.resp.status = 202 =>
        /\ Len(rows) = Len(txns[txnMap[uuid].txn].blobs) + 1
        /\ rows[Len(rows)].digest = digest(body)
        /\ rows[Len(rows)].rangeStart = cr.start
        /\ rows[Len(rows)].rangeEnd = Uint32(cr.start + Len(body) - 1)

\* C31: the Layer row a finalize on uuid u commits lists the fragment digests
\* of exactly the PATCH requests on u that were answered 202, in the order
\* they were accepted, one entry for each (every PATCH answered before the
\* finalize arrives).
C31_LayerListsAcceptedFragments ==
  \A ns \in Namespaces, id \in Issued, dig \in ClientDigests, body \in Bodies :
    LET r == CompleteUpload(ns, id, dig, body, {})
        rows == txns[txnMap[id].txn].blobs
    IN
    (Quiet /\ r.resp.status = 201) =>
      \E layer \in r.layerTable \ layerTable :
        /\ layer.uuid = id
        /\ layer.blobDigests = [i \in 1..Len(rows) |-> rows[i].digest]
        /\ Len(layer.blobDigests) = Len(acked[id])

\* C32: a session that PATCH and PUT can still reach holds an open
\* transaction: no session maps to a handle that was committed or aborted,
\* so no fragment or layer write is issued on a closed handle.
C32_SessionsHoldOpenTransactions ==
  \A id \in Ids : HasTxn(id) => TxnOpen(txns, txnMap[id].txn)

\* C33: a PATCH answered 416 leaves the session as it was (buffer, fragment
\* digest list, transactions, acknowledged chunks), and when the session
\* holds an open transaction a following PATCH whose Content-Range starts at
\* the buffer length is answered 202.
C33_RejectedStep ==
  (resp'.op = "UploadBlob" /\ resp'.status = 416) =>
    /\ uploads' = uploads
    /\ txnMap' = txnMap
    /\ txns' = txns
    /\ acked' = acked
    /\ \A ns \in Namespaces, id \in Ids, n \in 0..MaxLen, body \in Bodies,
          e \in {0, MaxLen} :
         LET cr == [kind |-> "range", start |-> n, end |-> e] IN
         (resp'.uuid = id /\ n = Len(UploadsGet(uploads, id)) /\ Writable(id)) =>
           (UploadBlob(ns, id, cr, body, Len(body), {}).resp.status)' = 202

C33_RangeRejectionKeepsSession == [][C33_RejectedStep]_vars

C33_Witness ==
  /\ resp.op = "UploadBlob"
  /\ resp.status = 416
  /\ Writable(resp.uuid)
  /\ UploadsGet(uploads, resp.uuid) # <<>>
  /\ txnMap[resp.uuid].blobDigests # <<>>

\* C34: PushManifest commits the Manifest row and the Config row together or
\* not at all: a 201 leaves both rows committed and the transaction
\* committed; any other answer is an error, leaves both tables as they were,
\* and a transaction that was opened has been aborted.
C34_PushStep ==
  resp'.op = "PushManifest" =>
    LET t == Len(txns) + 1
        opened == Len(txns') > Len(txns)
    IN
    IF resp'.status = 201
    THEN /\ opened /\ txns'[t].state = "committed"
         /\ \E row \in manifestTable' : row.namespace = resp'.ns
         /\ \E row \in configTable' :
              /\ row.namespace = resp'.ns /\ row.reference = resp'.ref
              /\ row.digest = resp'.digest
    ELSE /\ resp'.status >= 400
         /\ manifestTable' = manifestTable
         /\ configTable' = configTable
         /\ opened => txns'[t].state = "aborted"

C34_ManifestAndConfigCommitTogether == [][C34_PushStep]_vars

C34_Witness ==
  /\ resp.op = "PushManifest"
  /\ resp.status >= 400
  /\ resp.txn # 0
  /\ txns[resp.txn].state = "aborted"
  /\ \E i \in DOMAIN txns : txns[i].state = "committed"
  /\ manifestTable # {}
  /\ configTable # {}

\* C35: once DeleteUser(u) has returned without error, GetUserWithSession
\* returns an error for every session that u owned, whether or not the
\* session rows went with the user row.
C35_DeleteStep ==
  (userResp'.op = "DeleteUser" /\ ~userResp'.err) =>
    \A s \in sessionTable :
      (/\ UserKnown(userTable, s.owner)
       /\ UserById(userTable, s.owner).username = userResp'.arg) =>
        GetUserWithSession(userTable', sessionTable', s.id).err

C35_DeletedUsersSessionsResolveToNobody == [][C35_DeleteStep]_vars

C35_Witness ==
  /\ userResp.op = "DeleteUser"
  /\ ~userResp.err
  /\ \E s \in sessionTable :
       /\ ~UserKnown(userTable, s.owner)
       /\ GetUserWithSession(userTable, sessionTable, s.id).err

\* C36: the Layer row a finalize commits records as its size the number of
\* bytes of the whole layer: the accumulated buffer followed by the body of
\* the PUT.
C36_LayerSizeIsTotalBytes ==
  \A ns \in Namespaces, id \in Issued, dig \in ClientDigests, body \in Bodies :
    LET r == CompleteUpload(ns, id, dig, body, {})
        total == UploadsGet(uploads, id) \o body
    IN
    r.resp.status = 201 =>
      \A layer \in r.layerTable \ layerTable :
        layer.size = Len(total) /\ layer.size = Len(layer.skynetLink.content)

\* C37: every uuid with an entry in the upload buffer map has an entry in
\* the session map.
C37_BuffersBelongToSessions ==
  \A id \in Ids : HasUpload(id) => HasTxn(id)

\* C38: a PUT finalize on a uuid that has no session is answered with an
\* error and changes nothing: no object is uploaded, no row is written and
\* no transaction is touched.
C38_FinalizeWithoutSessionHasNoEffect ==
  \A ns \in Namespaces, id \in Issued, dig \in ClientDigests, body \in Bodies,
     f \in CompleteUploadFails :
    ~HasTxn(id) =>
      LET r == CompleteUpload(ns, id, dig, body, f) IN
      /\ r.resp.status >= 400
      /\ r.objects = objects
      /\ r.layerTable = layerTable
      /\ r.blobTable = blobTable
      /\ r.txns = txns

\* C39: with PATCH requests in flight on the uuid, once a PUT finalize has
\* been answered 201 the uuid has no buffer and no session, and the bytes
\* committed for the layer are the bytes of the PATCH requests that were
\* acknowledged.
C39_AfterFinalize ==
  (resp'.op = "CompleteUpload" /\ resp'.status = 201) =>
    \A id \in Ids :
      resp'.uuid = id =>
        /\ ~uploads'[id].has
        /\ ~txnMap'[id].has
        /\ resp' # resp => Len(UploadsGet(uploads, id)) = AckedLen(id)

C39_FinalizeEndsTheUploadUnderPatches == [][C39_AfterFinalize]_vars

\* C40: a PATCH or a PUT addressed to /v2/<name>/blobs/uploads/<u> leaves
\* the buffer, the fragment list and the transaction of every key other
\* than u as they were.
C40_UploadsAreIsolatedByUuid ==
  \A ns \in Namespaces, u \in Issued, cr \in ContentRanges, body \in Bodies,
     dig \in ClientDigests :
    LET patch == UploadBlob(ns, Param("PATCH", "uuid", u), cr, body, Len(body), {})
        put == CompleteUpload(ns, Param("PUT", "uuid", u), dig, body, {})
    IN
    \A k \in Keys \ {u} :
      /\ patch.uploads[k] = uploads[k] /\ patch.txnMap[k] = txnMap[k]
      /\ put.uploads[k] = uploads[k] /\ put.txnMap[k] = txnMap[k]
====
